---- MODULE Spec2Model ----
(***************************************************************************)
(* A model of generate_report.py: the Hacker News daily report generator.  *)
(*                                                                         *)
(* Text is modelled as a sequence of characters; a character is a          *)
(* one-element string.  "J" stands for any character of the hiragana,      *)
(* katakana or CJK ranges, "A" for an upper-case ASCII letter, "a" for a   *)
(* lower-case one, "1" for a digit.  A literal of the source is a sequence *)
(* of its true length (Lit).                                               *)
(*                                                                         *)
(* Every operation of the program is an operator computed as the code      *)
(* computes it, and an action that applies it to the inputs held in args   *)
(* and to the outcomes of the external collaborators held in env.          *)
(***************************************************************************)
EXTENDS Integers, Sequences, FiniteSets, TLC

VARIABLES
    pc,         \* "ready": the call has not run; "done": it has returned
    op,         \* the operation this behaviour calls
    args,       \* the arguments of the call
    env,        \* what the network, the libraries and the model answer
    ret,        \* what the call returned (None before it has)
    http_gets,  \* the urls requests.get was called with by the article fetcher
    model_calls, \* the prompts chat.completions.create was called with
    prev,       \* the previous call's arguments, environment and result
    story_index,       \* main: index, the rank of the story in hand
    pending_message,   \* main: the text generated and not yet posted
    accepted_messages, \* main: story_messages, the messages accepted so far
    events,            \* main: every request, model call, gate and send
    exit_status        \* main: None while it runs, then Exit(code)

main_vars ==
    <<story_index, pending_message, accepted_messages, events, exit_status>>

vars == <<pc, op, args, env, ret, http_gets, model_calls, prev,
          story_index, pending_message, accepted_messages, events, exit_status>>

None == [kind |-> "None"]

\* No article has been requested, the model has not been called and no call
\* has been made before.
Idle ==
    /\ http_gets = <<>>
    /\ model_calls = <<>>
    /\ prev = None
    /\ story_index = 0
    /\ pending_message = None
    /\ accepted_messages = <<>>
    /\ events = <<>>
    /\ exit_status = None

\* The call of the operation has returned.
Returned(name) == pc = "done" /\ op = name

(***************************************************************************)
(* Strings                                                                 *)
(***************************************************************************)
Rep(c, n) == [i \in 1..n |-> c]

\* A literal of the source: n characters, none of them white space, the
\* first one naming the literal.
Lit(tag, n) == <<tag>> \o Rep("~", n - 1)

Whitespace == {" ", "\n", "\t"}

Min(a, b) == IF a <= b THEN a ELSE b
Max(a, b) == IF a >= b THEN a ELSE b

\* s[i:j] of Python for 0 <= i, 0 <= j (0-based, j exclusive, clamped).
Slice(s, i, j) == SubSeq(s, Min(i, Len(s)) + 1, Min(j, Len(s)))

\* s[i:] of Python, i of either sign.
SliceFrom(s, i) ==
    IF i >= 0 THEN Slice(s, i, Len(s))
    ELSE Slice(s, Max(Len(s) + i, 0), Len(s))

\* s[:j] of Python, j of either sign.
SliceTo(s, j) ==
    IF j >= 0 THEN Slice(s, 0, j)
    ELSE Slice(s, 0, Max(Len(s) + j, 0))

RECURSIVE LStrip(_)
LStrip(s) ==
    IF s # <<>> /\ Head(s) \in Whitespace THEN LStrip(Tail(s)) ELSE s

RECURSIVE RStrip(_)
RStrip(s) ==
    IF s # <<>> /\ s[Len(s)] \in Whitespace
    THEN RStrip(SubSeq(s, 1, Len(s) - 1)) ELSE s

\* str.strip()
Strip(s) == RStrip(LStrip(s))

\* The first index at or after i where sep occurs in s, or 0.
Find(s, sep, i) ==
    LET hits == {k \in i..(Len(s) - Len(sep) + 1) :
                    SubSeq(s, k, k + Len(sep) - 1) = sep}
    IN  IF hits = {} THEN 0 ELSE CHOOSE k \in hits : \A h \in hits : k <= h

\* sep in s
Contains(s, sep) == Find(s, sep, 1) # 0

\* s.endswith(suffix)
EndsWith(s, suffix) ==
    /\ Len(suffix) <= Len(s)
    /\ SubSeq(s, Len(s) - Len(suffix) + 1, Len(s)) = suffix

\* str.split(sep): the pieces between the occurrences of sep, left to right.
RECURSIVE Split(_, _)
Split(s, sep) ==
    LET k == Find(s, sep, 1) IN
    IF k = 0 THEN <<s>>
    ELSE <<SubSeq(s, 1, k - 1)>> \o Split(SubSeq(s, k + Len(sep), Len(s)), sep)

\* sep.join(parts)
RECURSIVE Join(_, _)
Join(parts, sep) ==
    IF parts = <<>> THEN <<>>
    ELSE IF Len(parts) = 1 THEN parts[1]
    ELSE parts[1] \o sep \o Join(Tail(parts), sep)

\* "".join(parts)
Concat(parts) == Join(parts, <<>>)

\* Every sequence over S of length at most n.
SeqsUpTo(S, n) == UNION {[1..k -> S] : k \in 0..n}

(***************************************************************************)
(* DiscordWebhook._split_content                                           *)
(***************************************************************************)
\* for i in range(0, len(line), max_length): chunks.append(line[i:i+max_length])
RECURSIVE LineSlices(_, _)
LineSlices(line, max_length) ==
    IF line = <<>> THEN <<>>
    ELSE <<Slice(line, 0, max_length)>>
         \o LineSlices(SliceFrom(line, max_length), max_length)

\* if len(line) >= max_length
IsOversized(line, max_length) == Len(line) >= max_length

FitsNoSeparator(current_chunk, line, max_length) ==
    Len(current_chunk) + Len(line) <= max_length

\* elif len(current_chunk) + len(line) + 1 <= max_length
Fits(current_chunk, line, max_length) ==
    Len(current_chunk) + Len(line) + 1 <= max_length

BufferedLineNoNewline(line) == line

\* line + '\n'
BufferedLine(line) == line \o <<"\n">>

\* if current_chunk: chunks.append(current_chunk)
Flush(chunks, current_chunk) ==
    IF current_chunk # <<>> THEN Append(chunks, current_chunk) ELSE chunks

\* The loop over the lines, then the flush of what is left.
RECURSIVE SplitLoop(_, _, _, _)
SplitLoop(lines, chunks, current_chunk, max_length) ==
    IF lines = <<>> THEN Flush(chunks, current_chunk)
    ELSE LET line == Head(lines) IN
        IF IsOversized(line, max_length)
        THEN SplitLoop(Tail(lines),
                       Flush(chunks, current_chunk) \o LineSlices(line, max_length),
                       <<>>, max_length)
        ELSE IF Fits(current_chunk, line, max_length)
        THEN SplitLoop(Tail(lines), chunks,
                       current_chunk \o BufferedLine(line), max_length)
        ELSE SplitLoop(Tail(lines), Flush(chunks, current_chunk),
                       BufferedLine(line), max_length)

_split_content(content, max_length) ==
    SplitLoop(Split(content, <<"\n">>), <<>>, <<>>, max_length)

(***************************************************************************)
(* WebContentFetcher._truncate_content                                     *)
(***************************************************************************)
\* "\n\n...（中略）...\n\n": the two ideographs are "J", the full-width
\* brackets "(" and ")".
Marker ==
    <<"\n", "\n", ".", ".", ".", "(", "J", "J", ")", ".", ".", ".", "\n", "\n">>

\* "20 chars for ellipsis"
EllipsisReserve == 20

\* int(self.max_content_chars * 0.6), for a budget >= 0
first_part_size(max_content_chars) == (max_content_chars * 6) \div 10

\* self.max_content_chars - first_part_size - 20
last_part_size(max_content_chars) ==
    max_content_chars - first_part_size(max_content_chars) - EllipsisReserve

\* content[-last_part_size:]: the whole text when last_part_size is 0, the
\* text from index -last_part_size on when last_part_size is negative.
last_part(content, max_content_chars) ==
    SliceFrom(content, 0 - last_part_size(max_content_chars))

_truncate_content(content, max_content_chars) ==
    IF Len(content) <= max_content_chars THEN content
    ELSE SliceTo(content, first_part_size(max_content_chars))
         \o Marker
         \o last_part(content, max_content_chars)

(***************************************************************************)
(* The calls of _truncate_content: every budget from 1 to MaxBudget, and   *)
(* for each length up to MaxContent the text whose characters are all      *)
(* different (any other text of that length is an image of it).            *)
(***************************************************************************)
MaxBudget == 56
MaxContent == 60

DistinctText(n) == [i \in 1..n |-> ToString(i)]

InitTruncate ==
    /\ pc = "ready"
    /\ op = "_truncate_content"
    /\ \E n \in 0..MaxContent, b \in 1..MaxBudget :
          args = [content |-> DistinctText(n), max_content_chars |-> b]
    /\ env = None
    /\ ret = None
    /\ Idle

TruncateContent ==
    /\ pc = "ready"
    /\ op = "_truncate_content"
    /\ ret' = _truncate_content(args.content, args.max_content_chars)
    /\ pc' = "done"
    /\ UNCHANGED <<op, args, env, http_gets, model_calls, prev>>
    /\ UNCHANGED main_vars

NextTruncate == TruncateContent

SpecTruncate == InitTruncate /\ [][NextTruncate]_vars

\* The last n characters of s (none when n <= 0).
LastChars(s, n) == SubSeq(s, Len(s) - Min(Max(n, 0), Len(s)) + 1, Len(s))

\* The first n characters of s.
FirstChars(s, n) == SubSeq(s, 1, Min(Max(n, 0), Len(s)))

\* C3: for every budget >= 1 and every text longer than the budget, the
\* truncated text is at most budget + len(marker) characters long.
C3_TruncatedWithinBudget ==
    (Returned("_truncate_content") /\ Len(args.content) > args.max_content_chars)
    => Len(ret) <= args.max_content_chars + Len(Marker)

\* C4: the text is returned unchanged when it fits the budget; otherwise the
\* result is the first floor(0.6 * budget) characters, the marker, and the
\* last budget - first_part_size - 20 characters of the text.
C4_HeadMarkerTail ==
    Returned("_truncate_content") =>
        LET b == args.max_content_chars
            first == (6 * b) \div 10
            last == b - first - 20
        IN  IF Len(args.content) <= b THEN ret = args.content
            ELSE ret = FirstChars(args.content, first)
                       \o Marker
                       \o LastChars(args.content, last)


(***************************************************************************)
(* WebContentFetcher                                                       *)
(*                                                                         *)
(* A url is a sequence of its parts: the scheme, the host, the segments of *)
(* the path, and after "?" the query.  The code reads it as one string:    *)
(* a part is to the url what a character is to a text.                     *)
(***************************************************************************)
\* An optional string: None, or Str(s).
Str(s) == [kind |-> "str", s |-> s]

\* A call that came back with a value, and one that raised.
Return(v) == [kind |-> "return", value |-> v]
Raise(e) == [kind |-> "raise", exc |-> e]

\* len(content.strip()) > 50
MinContentChars == 50

\* int(os.getenv("MAX_ARTICLE_CONTENT_CHARS", "1500"))
DefaultMaxContentChars == 1500

HackerNewsHost == "news.ycombinator.com"

\* skip_extensions = ('.pdf', '.zip', '.exe', '.dmg', '.iso')
skip_extensions == {".pdf", ".zip", ".exe", ".dmg", ".iso"}

\* str.lower(), part by part
LowerPart(c) ==
    CASE c = ".PDF" -> ".pdf"
      [] c = ".ZIP" -> ".zip"
      [] OTHER -> c

Lower(s) == [i \in 1..Len(s) |-> LowerPart(s[i])]

_should_skip_url(url) ==
    \/ url = <<>>
    \/ Contains(url, <<HackerNewsHost>>)
    \/ \E e \in skip_extensions : EndsWith(Lower(url), <<e>>)

SkippedText == Lit("URL skipped (internal or unsupported type)", 42)
NoContentText == Lit("No content could be extracted", 29)
TimeoutText == Lit("Request timeout", 15)
HttpErrorPrefix == Lit("HTTP error: ", 12)

FetchFailure(reason) ==
    [content |-> None, title |-> None, error |-> Str(reason), method |-> None]

GateAtLeast(text) ==
    IF text # <<>> /\ Len(Strip(text)) >= MinContentChars
    THEN Str(Strip(text)) ELSE None

\* if content and len(content.strip()) > 50: return content.strip()
\* ... return None
Gate(text) ==
    IF text # <<>> /\ Len(Strip(text)) > MinContentChars
    THEN Str(Strip(text)) ELSE None

\* ' '.join(p.get_text() for p in paragraphs if p.get_text())
ParagraphText(paragraphs) ==
    Join(SelectSeq(paragraphs, LAMBDA p : p # <<>>), <<" ">>)

\* lib is what trafilatura.extract did with the page: it raised, it returned
\* None, or it returned a text.
_extract_with_trafilatura(lib) ==
    IF lib.kind = "raise" THEN None
    ELSE IF lib.kind = "None" THEN None
    ELSE Gate(lib.text)

\* lib is what Document(html).summary() and BeautifulSoup did: they raised,
\* or they found these paragraphs.
_extract_with_readability(lib) ==
    IF lib.kind = "raise" THEN None
    ELSE Gate(ParagraphText(lib.paragraphs))

\* lib is what BeautifulSoup did with the whole page: it raised, or it found
\* these paragraphs outside script, style, nav, footer, header and aside.
_extract_basic_text(lib) ==
    IF lib.kind = "raise" THEN None
    ELSE Gate(ParagraphText(lib.paragraphs))

CascadeBasicFirst(page) ==
    LET c3 == _extract_basic_text(page.basic)
        c2 == _extract_with_readability(page.readability)
        c1 == _extract_with_trafilatura(page.trafilatura)
    IN  IF c3 # None THEN [content |-> c3, method |-> Str(Lit("basic", 5))]
        ELSE IF c2 # None
        THEN [content |-> c2, method |-> Str(Lit("readability", 11))]
        ELSE IF c1 # None
        THEN [content |-> c1, method |-> Str(Lit("trafilatura", 11))]
        ELSE [content |-> None, method |-> None]

\* "Try extraction methods in order": the content and the method after the
\* three stages.
Cascade(page) ==
    LET c1 == _extract_with_trafilatura(page.trafilatura) IN
    IF c1 # None THEN [content |-> c1, method |-> Str(Lit("trafilatura", 11))]
    ELSE LET c2 == _extract_with_readability(page.readability) IN
    IF c2 # None THEN [content |-> c2, method |-> Str(Lit("readability", 11))]
    ELSE LET c3 == _extract_basic_text(page.basic) IN
    IF c3 # None THEN [content |-> c3, method |-> Str(Lit("basic", 5))]
    ELSE [content |-> None, method |-> None]

\* The body of the try block, up to its return or to the exception that
\* leaves it.  net is what requests.get and raise_for_status did.
FetchTry(net, page, max_content_chars) ==
    IF net.kind # "ok" THEN Raise(net)
    ELSE LET got == Cascade(page) IN
        IF got.content # None
        THEN Return([content |-> Str(_truncate_content(got.content.s,
                                                       max_content_chars)),
                     title |-> None, error |-> None, method |-> got.method])
        ELSE Return(FetchFailure(NoContentText))

FetchExceptHttpAsTimeout(outcome) ==
    IF outcome.kind = "return" THEN outcome
    ELSE IF outcome.exc.kind \in {"Timeout", "HTTPError"}
    THEN Return(FetchFailure(TimeoutText))
    ELSE Return(FetchFailure(outcome.exc.msg))

\* except requests.exceptions.Timeout / HTTPError as e / Exception as e
FetchExcept(outcome) ==
    IF outcome.kind = "return" THEN outcome
    ELSE IF outcome.exc.kind = "Timeout"
    THEN Return(FetchFailure(TimeoutText))
    ELSE IF outcome.exc.kind = "HTTPError"
    THEN Return(FetchFailure(HttpErrorPrefix \o outcome.exc.msg))
    ELSE Return(FetchFailure(outcome.exc.msg))

fetch_article_content(url, net, page, max_content_chars) ==
    IF _should_skip_url(url) THEN Return(FetchFailure(SkippedText))
    ELSE FetchExcept(FetchTry(net, page, max_content_chars))

\* The requests.get calls of one fetch_article_content(url).
FetchRequests(url) == IF _should_skip_url(url) THEN <<>> ELSE <<url>>


(***************************************************************************)
(* extract_japanese_response                                               *)
(***************************************************************************)
\* [぀-ゟ゠-ヿ一-鿿]
JapaneseChars == {"J"}
\* [A-Z], [a-z], \d
UpperChars == {"A"}
LowerChars == {"a"}
DigitChars == {"1"}

\* re.search(r'[぀-ゟ゠-ヿ一-鿿]', s)
HasJapanese(s) == \E i \in 1..Len(s) : s[i] \in JapaneseChars

\* re.search(r'^[\d\*\-\s]*[A-Z][a-z]+.*:', line): a run of digits, "*",
\* "-" and white space, an upper-case letter, a lower-case letter, and a
\* colon anywhere after them.
MatchesEnglishHeader(line) ==
    \E k \in 0..Len(line) :
        /\ \A i \in 1..k : line[i] \in DigitChars \cup {"*", "-"} \cup Whitespace
        /\ k + 2 <= Len(line)
        /\ line[k + 1] \in UpperChars
        /\ line[k + 2] \in LowerChars
        /\ \E j \in (k + 3)..Len(line) : line[j] = ":"

\* re.search(r'^\d+\.\s+', line)
MatchesNumbering(line) ==
    \E k \in 1..Len(line) :
        /\ \A i \in 1..k : line[i] \in DigitChars
        /\ k + 2 <= Len(line)
        /\ line[k + 1] = "."
        /\ line[k + 2] \in Whitespace

\* "lines that look like English headers or numbering"
LooksLikeHeader(line) == MatchesEnglishHeader(line) \/ MatchesNumbering(line)

KeepEverySection(sections) == sections

\* japanese_sections: the sections with a Japanese character, in order.
JapaneseSections(sections) == SelectSeq(sections, HasJapanese)

\* for i, line in enumerate(lines): ... return '\n'.join(lines[i:]).strip()
\* and, after the loop, return result
RECURSIVE ScanLines(_, _, _)
ScanLines(lines, i, result) ==
    IF i > Len(lines) THEN result
    ELSE IF LooksLikeHeader(lines[i]) THEN ScanLines(lines, i + 1, result)
    ELSE IF HasJapanese(lines[i])
    THEN Strip(Join(SubSeq(lines, i, Len(lines)), <<"\n">>))
    ELSE ScanLines(lines, i + 1, result)

extract_japanese_response(text) ==
    LET japanese_sections == JapaneseSections(Split(text, <<"\n", "\n">>)) IN
    IF japanese_sections # <<>>
    THEN LET result == Strip(Join(japanese_sections, <<"\n", "\n">>)) IN
         ScanLines(Split(result, <<"\n">>), 1, result)
    ELSE text


(***************************************************************************)
(* ReportGenerator                                                         *)
(*                                                                         *)
(* A message of the model is [content, reasoning_content]: content is      *)
(* None, a string or a list of content blocks; reasoning_content is Absent *)
(* (the attribute does not exist), None or a string.                       *)
(***************************************************************************)
Absent == [kind |-> "absent"]
List(blocks) == [kind |-> "list", blocks |-> blocks]

\* The truth value of None, of a string and of a list.
Truthy(v) ==
    CASE v.kind = "str" -> v.s # <<>>
      [] v.kind = "list" -> v.blocks # <<>>
      [] OTHER -> FALSE

\* str(n)
IntText(n) == <<ToString(n)>>

\* f"https://news.ycombinator.com/item?id={story.get('id', '')}"
hn_url(story) ==
    <<"https://", HackerNewsHost, "/", "item", "?", "id=">> \o IntText(story.id)

\* display_url = url or hn_url
display_url(story) ==
    IF Truthy(story.url) THEN story.url.s ELSE hn_url(story)

\* The ends of the matches of "<[^<]+?>" that start at i: a ">" at least two
\* characters after the "<", with no "<" between them.
TagEnds(text, i) ==
    IF text[i] # "<" THEN {}
    ELSE {j \in (i + 2)..Len(text) :
             text[j] = ">" /\ \A k \in (i + 1)..(j - 1) : text[k] # "<"}

\* re.sub("<[^<]+?>", "", text): the leftmost match, up to its nearest end,
\* is removed, and the search goes on after it.
RECURSIVE StripTags(_)
StripTags(text) ==
    LET starts == {i \in 1..Len(text) : TagEnds(text, i) # {}} IN
    IF starts = {} THEN text
    ELSE LET i == CHOOSE a \in starts : \A b \in starts : a <= b
             j == CHOOSE e \in TagEnds(text, i) :
                      \A f \in TagEnds(text, i) : e <= f
         IN  SubSeq(text, 1, i - 1) \o StripTags(SubSeq(text, j + 1, Len(text)))

\* html.unescape: a character reference is one character of the model.
UnescapeChar(c) ==
    CASE c = "&amp;" -> "&"
      [] c = "&lt;" -> "<"
      [] c = "&gt;" -> ">"
      [] OTHER -> c

Unescape(text) == [i \in 1..Len(text) |-> UnescapeChar(text[i])]

\* text[:200] + "..." if len(text) > 200 else text
CommentMaxChars == 200

CleanComment(text) ==
    LET t == Unescape(StripTags(text)) IN
    IF Len(t) > CommentMaxChars
    THEN SliceTo(t, CommentMaxChars) \o <<".", ".", ".">> ELSE t

\* comments_text: the cleaned comments that are not blank.
comments_text(comments) ==
    SelectSeq([i \in 1..Len(comments) |-> CleanComment(comments[i].text)],
              LAMBDA t : Strip(t) # <<>>)

NoCommentsText == Lit("no comments", 6)

\* "\n".join(f"- {t}" for t in comments_text) if comments_text else "コメントなし"
comments_joined(comments) ==
    LET texts == comments_text(comments) IN
    IF texts # <<>>
    THEN Join([i \in 1..Len(texts) |-> <<"-", " ">> \o texts[i]], <<"\n">>)
    ELSE NoCommentsText

\* What the story's fetch did: the result of fetch_article_content and the
\* requests it made; no result when the story has no url or fetching is
\* disabled.
StoryFetch(story, fx) ==
    IF Truthy(story.url) /\ fx.fetch_enabled
    THEN [called |-> TRUE,
          result |-> fetch_article_content(story.url.s, fx.net, fx.page,
                                           fx.max_content_chars),
          gets |-> FetchRequests(story.url.s)]
    ELSE [called |-> FALSE, result |-> Return(FetchFailure(<<>>)), gets |-> <<>>]

\* article_content, and fetch_error = fetch_result.get('error')
article_content(fetched) ==
    IF fetched.called /\ Truthy(fetched.result.value.content)
    THEN fetched.result.value.content ELSE None

fetch_error(fetched) ==
    IF fetched.called /\ ~Truthy(fetched.result.value.content)
    THEN fetched.result.value.error ELSE None

\* The content section of the prompt.
content_section(story, fetched) ==
    IF Truthy(article_content(fetched))
    THEN [kind |-> "article", text |-> article_content(fetched).s]
    ELSE IF Truthy(story.url) /\ Truthy(fetch_error(fetched))
    THEN [kind |-> "unavailable", text |-> fetch_error(fetched).s]
    ELSE [kind |-> "no external article", text |-> <<>>]

StoryPrompt(story, index, fetched) ==
    [operation |-> "generate_story_summary",
     index |-> index,
     title |-> story.title,
     url |-> display_url(story),
     score |-> story.score,
     content_section |-> content_section(story, fetched),
     comments |-> comments_joined(story.top_comments)]

\* not content or not content.strip(), for None, a string or an empty
\* list (a list that is not empty has no strip and raises).
Blank(content) ==
    CASE content.kind = "str" -> Strip(content.s) = <<>>
      [] OTHER -> TRUE

\* content.strip() of a list that is not empty: AttributeError
StripRaises(content) == content.kind = "list" /\ content.blocks # <<>>

\* hasattr(message, 'reasoning_content') and message.reasoning_content
HasReasoning(message) == Truthy(message.reasoning_content)

\* The content after the handling of the reasoning field.
Recovered(message) ==
    IF Blank(message.content) /\ HasReasoning(message)
    THEN Str(extract_japanese_response(message.reasoning_content.s))
    ELSE message.content

\* "".join(block.get("text", "") ...) of a list of content blocks
JoinBlocks(content) ==
    IF content.kind = "list"
    THEN Str(Concat([i \in 1..Len(content.blocks) |-> content.blocks[i].text]))
    ELSE content

\* f"{title} ({display_url}) の要約を生成できませんでした。"
\* f" スコア: {score}。主要コメント: {comments_joined}"
EmptySummaryText(story) ==
    story.title \o <<" ", "(">> \o display_url(story) \o <<")">>
    \o Lit("summary could not be generated", 16)
    \o Lit("score", 6) \o IntText(story.score)
    \o Lit("main comments", 9) \o comments_joined(story.top_comments)

\* f"{title} ({display_url}) の要約生成に失敗しました。"
FailedSummaryText(story) ==
    story.title \o <<" ", "(">> \o display_url(story) \o <<")">>
    \o Lit("summary generation failed", 14)

\* f"【記事 {index}】\n{content}"
ArticlePrefix(index) == Lit("article", 4) \o IntText(index) \o <<"]", "\n">>

\* The try block of generate_story_summary, from the message of the model.
StoryTry(model, story, index) ==
    IF model.kind = "raise" THEN Raise(model)
    ELSE IF StripRaises(model.message.content)
    THEN Raise([kind |-> "raise", msg |-> Lit("AttributeError", 14)])
    ELSE LET content == JoinBlocks(Recovered(model.message)) IN
         Return(ArticlePrefix(index)
                \o (IF Blank(content) THEN EmptySummaryText(story)
                    ELSE content.s))

StoryExceptWithMessage(outcome, story) ==
    IF outcome.kind = "return" THEN outcome
    ELSE Return(FailedSummaryText(story) \o outcome.exc.msg)

\* except Exception as e: return f"{title} ({display_url}) の要約生成に失敗しました。"
StoryExcept(outcome, story) ==
    IF outcome.kind = "return" THEN outcome
    ELSE Return(FailedSummaryText(story))

\* generate_story_summary(story, index): fx is the fetcher and what the
\* network and the libraries answer, model what the model answers.
generate_story_summary(story, index, fx, model) ==
    LET fetched == StoryFetch(story, fx) IN
    IF fetched.result.kind = "raise" THEN fetched.result
    ELSE StoryExcept(StoryTry(model, story, index), story)

\* str(content) in an f-string
Format(content) ==
    CASE content.kind = "str" -> content.s
      [] content.kind = "list" -> <<"[", "]">>
      [] OTHER -> <<"N", "o", "n", "e">>

OverallHeader == Lit("## overall summary", 13) \o <<"\n">>
OverallFailedText == Lit("overall summary generation failed", 16)
ThemesHeader == Lit("## key themes", 10) \o <<"\n">>
ThemesFailedText == Lit("key theme extraction failed", 16)
InsightsHeader == Lit("## engineering insights", 15) \o <<"\n">>
InsightsFailedText == Lit("engineering insights failed", 21)

\* generate_overall_summary: the recovered text is replaced by the raw
\* reasoning field (content = message.reasoning_content).
generate_overall_summary(story_messages, model) ==
    IF model.kind = "raise" \/ StripRaises(model.message.content)
    THEN Return(OverallHeader \o OverallFailedText)
    ELSE LET content ==
                 IF Blank(model.message.content) /\ HasReasoning(model.message)
                 THEN model.message.reasoning_content
                 ELSE model.message.content
         IN  Return(OverallHeader \o Format(content))

extract_key_themes(story_messages, model) ==
    IF model.kind = "raise" \/ StripRaises(model.message.content)
    THEN Return(ThemesHeader \o ThemesFailedText)
    ELSE Return(ThemesHeader \o Format(Recovered(model.message)))

generate_engineering_insights(story_messages, model) ==
    IF model.kind = "raise" \/ StripRaises(model.message.content)
    THEN Return(InsightsHeader \o InsightsFailedText)
    ELSE Return(InsightsHeader \o Format(Recovered(model.message)))

AggregatePrompt(operation, story_messages) ==
    [operation |-> operation,
     count |-> Len(story_messages),
     joined |-> Join(story_messages, <<"\n", "\n">>)]


(***************************************************************************)
(* The calls of _split_content: every text over ChunkAlphabet of at most   *)
(* MaxText characters, every limit from 1 to MaxLimit.                     *)
(***************************************************************************)
MaxText == 6
MaxLimit == 3
ChunkAlphabet == {"a", "b", "\n"}

InitChunk ==
    /\ pc = "ready"
    /\ op = "_split_content"
    /\ args \in [content : SeqsUpTo(ChunkAlphabet, MaxText),
                 max_length : 1..MaxLimit]
    /\ env = None
    /\ ret = None
    /\ Idle

SplitContent ==
    /\ pc = "ready"
    /\ op = "_split_content"
    /\ ret' = _split_content(args.content, args.max_length)
    /\ pc' = "done"
    /\ UNCHANGED <<op, args, env, http_gets, model_calls, prev>>
    /\ UNCHANGED main_vars

NextChunk == SplitContent

SpecChunk == InitChunk /\ [][NextChunk]_vars

\* The lines of the text given to the chunker.
ChunkLines == Split(args.content, <<"\n">>)

\* C1: every chunk _split_content returns is at most limit characters long,
\* the newline appended after a buffered line and the slices of a line of
\* limit characters or more included.
C1_ChunksWithinLimit ==
    Returned("_split_content") =>
        \A i \in 1..Len(ret) : Len(ret[i]) <= args.max_length

\* A call that returned a buffer of exactly limit characters ending in the
\* appended newline, and also slices of a line longer than the limit.
C1_Witness ==
    /\ Returned("_split_content")
    /\ \E i \in 1..Len(ret) :
          Len(ret[i]) = args.max_length /\ ret[i][Len(ret[i])] = "\n"
    /\ \E k \in 1..Len(ChunkLines) : Len(ChunkLines[k]) > args.max_length
    /\ Len(ret) >= 3

\* C2 as stated: with no line longer than limit (a line of exactly limit
\* characters allowed), the chunks concatenate to the text plus one newline.
C2_Original ==
    (Returned("_split_content")
       /\ \A k \in 1..Len(ChunkLines) : Len(ChunkLines[k]) <= args.max_length)
    => Concat(ret) = args.content \o <<"\n">>

\* C2 amended: with every line shorter than limit, the chunks concatenate
\* to the text followed by exactly one newline.
C2_LosslessBelowLimit ==
    (Returned("_split_content")
       /\ \A k \in 1..Len(ChunkLines) : Len(ChunkLines[k]) < args.max_length)
    => Concat(ret) = args.content \o <<"\n">>

\* A text of several lines, all shorter than limit, that took several chunks.
C2_Witness ==
    /\ Returned("_split_content")
    /\ \A k \in 1..Len(ChunkLines) : Len(ChunkLines[k]) < args.max_length
    /\ Len(ChunkLines) >= 3
    /\ Len(ret) >= 2
    /\ \E k \in 1..Len(ChunkLines) : Len(ChunkLines[k]) = args.max_length - 1

(***************************************************************************)
(* The calls of fetch_article_content: urls with and without a skipped     *)
(* extension, in the path or at the end of the query, on the discussion    *)
(* host or naming it in the query; every outcome of the request; every     *)
(* outcome of the three extraction libraries around the 50-character gate. *)
(***************************************************************************)
UrlOf(host, ext, query) == <<"https://", host, "/", "doc">> \o ext \o query

UrlExtensions ==
    {<<>>, <<".html">>, <<".PDF">>} \cup {<<e>> : e \in skip_extensions}

UrlQueries ==
    {<<>>, <<"?", "dl=1">>, <<"?", "f=a", ".pdf">>, <<"?", "ref=", HackerNewsHost>>}

FetchUrls ==
    {<<>>} \cup {UrlOf(h, e, q) : h \in {"example.com", HackerNewsHost},
                                  e \in UrlExtensions, q \in UrlQueries}

\* str(e) of the exceptions requests raises.
ExceptionMessages == {<<>>, Lit("Connection refused", 18)}

NetOutcomes ==
    {[kind |-> "ok"], [kind |-> "Timeout"]}
    \cup {[kind |-> k, msg |-> m] : k \in {"HTTPError", "Exception"},
                                    m \in ExceptionMessages}

LibRaise == [kind |-> "raise"]

TrafilaturaOutcomes ==
    {LibRaise, [kind |-> "None"]}
    \cup {[kind |-> "text", text |-> t] :
            t \in {<<>>,
                   Rep("t", MinContentChars),
                   <<" ">> \o Rep("t", MinContentChars) \o <<"\n">>,
                   Rep("t", MinContentChars + 1),
                   <<" ">> \o Rep("t", MinContentChars + 1) \o <<"\n">>}}

ParagraphOutcomes(c) ==
    {LibRaise}
    \cup {[kind |-> "paragraphs", paragraphs |-> ps] :
            ps \in {<<>>,
                    <<Rep(c, MinContentChars)>>,
                    <<Rep(c, MinContentChars \div 2), <<>>,
                      Rep(c, MinContentChars \div 2)>>,
                    <<<<" ">> \o Rep(c, MinContentChars)>>}}

PageOutcomes ==
    [trafilatura : TrafilaturaOutcomes,
     readability : ParagraphOutcomes("r"),
     basic : ParagraphOutcomes("b")]

NoPage == [trafilatura |-> LibRaise, readability |-> LibRaise, basic |-> LibRaise]

\* What the network and the libraries answer: the page is only read when
\* the request succeeded.
FetchEnvs ==
    {[net |-> n, page |-> NoPage] : n \in NetOutcomes \ {[kind |-> "ok"]}}
    \cup {[net |-> [kind |-> "ok"], page |-> pg] : pg \in PageOutcomes}

FetchBudgets == {MinContentChars + 2, DefaultMaxContentChars}

InitFetch ==
    /\ pc = "ready"
    /\ op = "fetch_article_content"
    /\ args \in [url : FetchUrls, max_content_chars : FetchBudgets]
    /\ env \in FetchEnvs
    /\ ret = None
    /\ Idle

FetchArticleContent ==
    /\ pc = "ready"
    /\ op = "fetch_article_content"
    /\ ret' = fetch_article_content(args.url, env.net, env.page,
                                    args.max_content_chars)
    /\ http_gets' = http_gets \o FetchRequests(args.url)
    /\ pc' = "done"
    /\ UNCHANGED <<op, args, env, model_calls, prev>>
    /\ UNCHANGED main_vars

NextFetch == FetchArticleContent

SpecFetch == InitFetch /\ [][NextFetch]_vars

\* The page of the url was requested and came back.
PageRead == http_gets # <<>> /\ env.net.kind = "ok"

\* What stage i made of the page, stripped: nothing when its library raised
\* or returned None.
StageOutput(i) ==
    CASE i = 1 -> IF env.page.trafilatura.kind = "text"
                  THEN Strip(env.page.trafilatura.text) ELSE <<>>
      [] i = 2 -> IF env.page.readability.kind = "paragraphs"
                  THEN Strip(ParagraphText(env.page.readability.paragraphs))
                  ELSE <<>>
      [] i = 3 -> IF env.page.basic.kind = "paragraphs"
                  THEN Strip(ParagraphText(env.page.basic.paragraphs))
                  ELSE <<>>

StageName(i) ==
    CASE i = 1 -> Lit("trafilatura", 11)
      [] i = 2 -> Lit("readability", 11)
      [] i = 3 -> Lit("basic", 5)

PassingStages == {i \in 1..3 : Len(StageOutput(i)) > 50}

\* C5: extraction never raises; its result is the output of the first
\* stage, in the order trafilatura, readability, basic, whose text is longer
\* than 50 characters (a stage that raised has none); it is none only when
\* all three stages fail the gate; the method names the stage that won.
C5_FirstPassingStage ==
    (Returned("fetch_article_content") /\ PageRead) =>
        /\ ret.kind = "return"
        /\ IF PassingStages = {}
           THEN ret.value.content = None /\ ret.value.method = None
           ELSE LET i == CHOOSE k \in PassingStages :
                             \A j \in PassingStages : k <= j
                IN  /\ ret.value.content =
                          Str(_truncate_content(StageOutput(i),
                                                args.max_content_chars))
                    /\ ret.value.method = Str(StageName(i))

\* The first stage raised, the second made exactly 50 characters, the third
\* made 51 and won; the budget left the text whole.
C5_Witness ==
    /\ Returned("fetch_article_content") /\ PageRead
    /\ env.page.trafilatura.kind = "raise"
    /\ Len(StageOutput(2)) = 50
    /\ ret.value.method = Str(StageName(3))
    /\ ret.value.content = Str(StageOutput(3))

StartsWith(s, prefix) ==
    Len(prefix) <= Len(s) /\ SubSeq(s, 1, Len(prefix)) = prefix

\* C6: fetch_article_content never raises; exactly one of content and error
\* is present, and method is present exactly when content is; a timeout, an
\* HTTP error status and any other transport failure give different reasons.
C6_FetchResultShape ==
    Returned("fetch_article_content") =>
        /\ ret.kind = "return"
        /\ (ret.value.content = None) # (ret.value.error = None)
        /\ (ret.value.method # None) <=> (ret.value.content # None)
        /\ http_gets # <<>> =>
              /\ (env.net.kind = "Timeout")
                    <=> (ret.value.error = Str(TimeoutText))
              /\ (env.net.kind = "HTTPError")
                    <=> (/\ ret.value.error # None
                         /\ StartsWith(ret.value.error.s, HttpErrorPrefix))
              /\ (env.net.kind = "Exception")
                    => (ret.value.error = Str(env.net.msg))

\* The request ended in an HTTP error status with a message.
C6_Witness ==
    /\ Returned("fetch_article_content")
    /\ http_gets # <<>>
    /\ env.net.kind = "HTTPError" /\ env.net.msg # <<>>
    /\ ret.value.error = Str(HttpErrorPrefix \o env.net.msg)
    /\ ret.value.content = None

\* The path of a url: its parts after the host, up to the query.
UrlPath(url) ==
    LET q == Find(url, <<"?">>, 1) IN
    SubSeq(url, 3, IF q = 0 THEN Len(url) ELSE q - 1)

\* Empty, on the discussion host, or with a path ending in a skipped
\* extension.
Ineligible(url) ==
    \/ url = <<>>
    \/ url[2] = HackerNewsHost
    \/ LET path == UrlPath(url) IN
       path # <<>> /\ LowerPart(path[Len(path)]) \in skip_extensions

\* C7: an empty url, a url on the discussion host and a url whose path ends
\* in .pdf/.zip/.exe/.dmg/.iso give the "skipped" result with no request;
\* every other url is requested exactly once.
C7_SkippedByPath ==
    Returned("fetch_article_content") =>
        IF Ineligible(args.url)
        THEN ret = Return(FetchFailure(SkippedText)) /\ http_gets = <<>>
        ELSE http_gets = <<args.url>>

(***************************************************************************)
(* The calls of extract_japanese_response: every text over RecoverAlphabet *)
(* of at most MaxReasoning characters, and the reasoning field             *)
(* "Let's think.\n\n記事は興味深い。".                                     *)
(***************************************************************************)
MaxReasoning == 5
RecoverAlphabet == {"J", "A", "a", ":", "1", ".", " ", "\n"}

\* "Let's think.\n\n記事は興味深い。"
LetsThink ==
    <<"A", "a", "a", "'", "a", " ", "a", "a", "a", "a", "a", ".", "\n", "\n">>
    \o Rep("J", 7) \o <<"o">>

InitRecover ==
    /\ pc = "ready"
    /\ op = "extract_japanese_response"
    /\ args \in [text : SeqsUpTo(RecoverAlphabet, MaxReasoning) \cup {LetsThink}]
    /\ env = None
    /\ ret = None
    /\ Idle

ExtractJapaneseResponse ==
    /\ pc = "ready"
    /\ op = "extract_japanese_response"
    /\ ret' = extract_japanese_response(args.text)
    /\ pc' = "done"
    /\ UNCHANGED <<op, args, env, http_gets, model_calls, prev>>
    /\ UNCHANGED main_vars

NextRecover == ExtractJapaneseResponse

SpecRecover == InitRecover /\ [][NextRecover]_vars

\* The four steps of the claim.  With strip = FALSE they are as stated; with
\* strip = TRUE the rejoined block and the block returned have their leading
\* and trailing white space removed.
Reference(text, strip) ==
    LET kept == SelectSeq(Split(text, <<"\n", "\n">>), HasJapanese) IN
    IF kept = <<>> THEN text
    ELSE LET joined == Join(kept, <<"\n", "\n">>)
             block == IF strip THEN Strip(joined) ELSE joined
             lines == Split(block, <<"\n">>)
             answers == {i \in 1..Len(lines) :
                            ~LooksLikeHeader(lines[i]) /\ HasJapanese(lines[i])}
         IN  IF answers = {} THEN block
             ELSE LET first == CHOOSE i \in answers : \A j \in answers : i <= j
                      rest == Join(SubSeq(lines, first, Len(lines)), <<"\n">>)
                  IN  IF strip THEN Strip(rest) ELSE rest

\* C10 as stated: extract_japanese_response(text) equals the four-step
\* reference (split on blank lines, keep the sections with a target-script
\* character, return the text unchanged if none is kept, otherwise return
\* the rejoined block from the first line that fails the header pattern and
\* has a target-script character, or the whole block).
C10_Original ==
    Returned("extract_japanese_response") => ret = Reference(args.text, FALSE)

\* C10 amended: extract_japanese_response(text) equals the four-step
\* reference in which the rejoined block, and the block returned from the
\* first answer line, are stripped of leading and trailing white space; a
\* text with no target-script character is returned unchanged, and
\* "Let's think.\n\n記事は興味深い。" gives "記事は興味深い。".
C10_RecoveryEqualsReference ==
    Returned("extract_japanese_response") =>
        /\ ret = Reference(args.text, TRUE)
        /\ ~HasJapanese(args.text) => ret = args.text
        /\ args.text = LetsThink => ret = Rep("J", 7) \o <<"o">>

\* A header line was skipped and the answer returned from the line after it.
C10_Witness ==
    /\ Returned("extract_japanese_response")
    /\ args.text = <<"A", "a", ":", "\n", "J">>
    /\ ret = <<"J">>

(***************************************************************************)
(* The calls of generate_story_summary.  After a call whose generation     *)
(* failed, a second call is made for a story with the same title, url,     *)
(* score and comments, and prev keeps the story, the index, the kind of    *)
(* failure and the text of the first.                                      *)
(***************************************************************************)
MaxIndex == 2
MaxStoryId == 2

StoryTitles == {<<"A", "a">>, <<"J">>}
StoryUrls == {None, Str(UrlOf("example.com", <<".html">>, <<>>))}
StoryScores == {7, 8}
StoryComments ==
    {<<>>,
     <<[text |-> <<"<", "p", ">", "a", "&amp;", "a">>],
       [text |-> <<" ">>],
       [text |-> Rep("a", CommentMaxChars + 1)]>>}

Stories ==
    [title : StoryTitles, url : StoryUrls, id : 1..MaxStoryId,
     score : StoryScores, top_comments : StoryComments]

\* A page whose first stage passes the gate.
GoodPage ==
    [trafilatura |-> [kind |-> "text", text |-> Rep("t", MinContentChars + 1)],
     readability |-> LibRaise, basic |-> LibRaise]

\* The fetcher of the generator and what the network answers it.
StoryFetchers ==
    {[fetch_enabled |-> TRUE, net |-> n, page |-> GoodPage,
      max_content_chars |-> DefaultMaxContentChars] :
        n \in {[kind |-> "ok"], [kind |-> "Timeout"]}}
    \cup {[fetch_enabled |-> FALSE, net |-> [kind |-> "ok"], page |-> NoPage,
           max_content_chars |-> DefaultMaxContentChars]}

Message(content, reasoning) ==
    [kind |-> "response",
     message |-> [content |-> content, reasoning_content |-> reasoning]]

\* What the model answers: it raises, or it returns a message.
StoryModelOutcomes ==
    {[kind |-> "raise", msg |-> m] :
        m \in {Lit("timed out", 9), Lit("rate limit", 10)}}
    \cup {Message(None, Absent),
          Message(Str(<<" ">>), Str(<<"A", "a", ":", "\n", "J">>)),
          Message(Str(<<>>), Str(<<" ", "\n">>)),
          Message(Str(<<"J", "J">>), Absent),
          Message(List(<<[text |-> <<"J">>]>>), Absent),
          Message(List(<<>>), Absent)}

StoryCalls ==
    [story : Stories, index : 1..MaxIndex]

StoryEnvs == [fx : StoryFetchers, model : StoryModelOutcomes]

InitStory ==
    /\ pc = "ready"
    /\ op = "generate_story_summary"
    /\ args \in StoryCalls
    /\ env \in StoryEnvs
    /\ ret = None
    /\ Idle

GenerateStorySummary ==
    /\ pc = "ready"
    /\ op = "generate_story_summary"
    /\ LET fetched == StoryFetch(args.story, env.fx) IN
          /\ http_gets' = http_gets \o fetched.gets
          /\ model_calls' =
                IF fetched.result.kind = "raise" THEN model_calls
                ELSE Append(model_calls,
                            StoryPrompt(args.story, args.index, fetched))
    /\ ret' = generate_story_summary(args.story, args.index, env.fx, env.model)
    /\ pc' = "done"
    /\ UNCHANGED <<op, args, env, prev>>
    /\ UNCHANGED main_vars

\* The kind of failure of the generation of the current call: the call of
\* the model raised (or the handling of its message did), the output was
\* still empty after the recovery, or none.
StoryFailure ==
    IF env.model.kind = "raise" \/ StripRaises(env.model.message.content)
    THEN "exception"
    ELSE IF Blank(JoinBlocks(Recovered(env.model.message))) THEN "empty"
    ELSE "none"

\* The stories that c's story may be taken for: the same title, url, score
\* and comments.
SameStoryFacts(c) ==
    {d \in StoryCalls :
        /\ d.story.title = c.story.title
        /\ d.story.url = c.story.url
        /\ d.story.score = c.story.score
        /\ d.story.top_comments = c.story.top_comments}

\* A later call of generate_story_summary, for a story with the same title,
\* url, score and comments, at any index and with any answer of the network
\* and of the model.
CallAgain ==
    /\ pc = "done"
    /\ op = "generate_story_summary"
    /\ prev = None
    /\ StoryFailure # "none"
    /\ ret.kind = "return"
    /\ prev' = [story |-> args.story, index |-> args.index,
                failure |-> StoryFailure, text |-> ret.value]
    /\ args' \in SameStoryFacts(args)
    /\ env' \in StoryEnvs
    /\ ret' = None
    /\ http_gets' = <<>>
    /\ model_calls' = <<>>
    /\ pc' = "ready"
    /\ UNCHANGED op
    /\ UNCHANGED main_vars

NextStory == GenerateStorySummary \/ CallAgain

SpecStory == InitStory /\ [][NextStory]_vars

\* Both calls failed to generate.
BothFailed ==
    /\ Returned("generate_story_summary")
    /\ prev # None
    /\ StoryFailure # "none"

\* C8 as stated: generate_story_summary never raises and never returns an
\* empty text, and when generation fails the text is a function only of the
\* story's title, url, score and comments (read in the claim's favour: for
\* each of the two kinds of failure).
C8_Original ==
    Returned("generate_story_summary") =>
        /\ ret.kind = "return"
        /\ Strip(ret.value) # <<>>
        /\ (/\ BothFailed
            /\ prev.failure = StoryFailure
            /\ prev.story.title = args.story.title
            /\ prev.story.url = args.story.url
            /\ prev.story.score = args.story.score
            /\ prev.story.top_comments = args.story.top_comments)
           => ret.value = prev.text

\* C8 amended: generate_story_summary never raises and never returns an
\* empty text, and when generation fails the text is a function only of the
\* kind of failure (an exception, or an output still empty after the
\* recovery), of the story's title, url, id, score and comments, and of the
\* index of the story.
C8_FallbackDeterministic ==
    Returned("generate_story_summary") =>
        /\ ret.kind = "return"
        /\ Strip(ret.value) # <<>>
        /\ (/\ BothFailed
            /\ prev.failure = StoryFailure
            /\ prev.index = args.index
            /\ prev.story = args.story)
           => ret.value = prev.text

\* The same story at the same index failed twice by an exception, with
\* different messages and different outcomes of the article fetch, and a
\* story failed twice by an empty output.
C8_Witness ==
    /\ BothFailed
    /\ prev.failure = StoryFailure
    /\ prev.index = args.index
    /\ prev.story = args.story
    /\ StoryFailure = "exception"
    /\ env.model.kind = "raise" /\ env.model.msg = Lit("rate limit", 10)
    /\ http_gets # <<>> /\ env.fx.net.kind = "Timeout"
    /\ args.story.top_comments # <<>>
    /\ ret.value = prev.text

(***************************************************************************)
(* The calls of the three aggregate operations.                            *)
(***************************************************************************)
AggregateOperations ==
    {"generate_overall_summary", "extract_key_themes",
     "generate_engineering_insights"}

\* The per-story messages handed to the aggregate operations.
StoryMessages ==
    LET m(i) == ArticlePrefix(i) \o Rep("J", MinContentChars) IN
    {<<m(1)>>, <<m(1), m(2)>>, <<m(1), m(2), m(3)>>}

AggregateModelOutcomes ==
    {[kind |-> "raise", msg |-> Lit("timed out", 9)]}
    \cup {Message(c, r) :
            c \in {None, Str(<<>>), Str(<<" ", "\n">>), Str(<<"J", "J">>),
                   List(<<>>), List(<<[text |-> <<"J">>]>>)},
            r \in {Absent, None, Str(<<>>), Str(<<" ">>), Str(<<"a", "a">>),
                   Str(<<"A", "a", ":", "\n", "J", " ">>)}}

InitAggregate ==
    /\ pc = "ready"
    /\ op \in AggregateOperations
    /\ args \in [story_messages : StoryMessages]
    /\ env \in [model : AggregateModelOutcomes]
    /\ ret = None
    /\ Idle

GenerateOverallSummary ==
    /\ pc = "ready"
    /\ op = "generate_overall_summary"
    /\ model_calls' = Append(model_calls, AggregatePrompt(op, args.story_messages))
    /\ ret' = generate_overall_summary(args.story_messages, env.model)
    /\ pc' = "done"
    /\ UNCHANGED <<op, args, env, http_gets, prev>>
    /\ UNCHANGED main_vars

ExtractKeyThemes ==
    /\ pc = "ready"
    /\ op = "extract_key_themes"
    /\ model_calls' = Append(model_calls, AggregatePrompt(op, args.story_messages))
    /\ ret' = extract_key_themes(args.story_messages, env.model)
    /\ pc' = "done"
    /\ UNCHANGED <<op, args, env, http_gets, prev>>
    /\ UNCHANGED main_vars

GenerateEngineeringInsights ==
    /\ pc = "ready"
    /\ op = "generate_engineering_insights"
    /\ model_calls' = Append(model_calls, AggregatePrompt(op, args.story_messages))
    /\ ret' = generate_engineering_insights(args.story_messages, env.model)
    /\ pc' = "done"
    /\ UNCHANGED <<op, args, env, http_gets, prev>>
    /\ UNCHANGED main_vars

NextAggregate ==
    \/ GenerateOverallSummary
    \/ ExtractKeyThemes
    \/ GenerateEngineeringInsights

SpecAggregate == InitAggregate /\ [][NextAggregate]_vars

\* The section header and the fallback sentence of the operation called.
HeaderOf(name) ==
    CASE name = "generate_overall_summary" -> OverallHeader
      [] name = "extract_key_themes" -> ThemesHeader
      [] name = "generate_engineering_insights" -> InsightsHeader

FallbackOf(name) ==
    CASE name = "generate_overall_summary" -> OverallFailedText
      [] name = "extract_key_themes" -> ThemesFailedText
      [] name = "generate_engineering_insights" -> InsightsFailedText

\* Generation failed: the call of the model raised (or the handling of its
\* message did), or the output is still blank after the recovery from the
\* reasoning field.
AggregateFailed ==
    \/ env.model.kind = "raise"
    \/ StripRaises(env.model.message.content)
    \/ Blank(Recovered(env.model.message))

\* C9: whenever generation fails, an aggregate operation returns its header
\* followed by its own fixed fallback sentence, so the text it returns
\* always has a body that is not empty after the header.
C9_AggregateFallback ==
    (pc = "done" /\ op \in AggregateOperations) =>
        /\ ret.kind = "return"
        /\ AggregateFailed => ret.value = HeaderOf(op) \o FallbackOf(op)
        /\ Strip(SubSeq(ret.value, Len(HeaderOf(op)) + 1, Len(ret.value))) # <<>>

(***************************************************************************)
(* DiscordWebhook.post_message and _send_chunk                             *)
(***************************************************************************)
\* Discord has a 2000 character limit per message
DiscordLimit == 2000

\* chunks = [content] if len(content) <= 2000
\*          else self._split_content(content, 2000)
Chunks(content) ==
    IF Len(content) <= DiscordLimit THEN <<content>>
    ELSE _split_content(content, DiscordLimit)

\* What the transport answers to one requests.post.
TransportResponses == {"ok", "error"}

\* _send_chunk(content): requests.post and response.raise_for_status()
_send_chunk(content, response) ==
    IF response = "ok" THEN Return(None) ELSE Raise(response)

\* One requests.post of the webhook: the chunk, its place among the chunks
\* of its message, and whether the transport took it.
Sent(chunks, idx, response) ==
    [chunk |-> idx, of |-> Len(chunks), content |-> chunks[idx],
     ok |-> response = "ok"]

\* for idx, chunk in enumerate(chunks, 1): self._send_chunk(chunk)
\* The sends made from chunk idx on, and whether the loop ran to its end.
RECURSIVE SendLoop(_, _, _)
SendLoop(chunks, responses, idx) ==
    IF idx > Len(chunks) THEN [sends |-> <<>>, completed |-> TRUE]
    ELSE LET sent == Sent(chunks, idx, responses[idx]) IN
         IF _send_chunk(chunks[idx], responses[idx]).kind = "raise"
         THEN [sends |-> <<sent>>, completed |-> FALSE]
         ELSE LET rest == SendLoop(chunks, responses, idx + 1) IN
              [sends |-> <<sent>> \o rest.sends, completed |-> rest.completed]

PostMessageSwallowsFailure(content, responses) ==
    [sends |-> SendLoop(Chunks(content), responses, 1).sends, value |-> TRUE]

\* post_message(content): True when every chunk was sent, False as soon as
\* a send raises (except Exception: return False).
post_message(content, responses) ==
    LET sending == SendLoop(Chunks(content), responses, 1) IN
    [sends |-> sending.sends, value |-> sending.completed]

(***************************************************************************)
(* main                                                                    *)
(*                                                                         *)
(* args holds what get_top_stories returned, the date and the article      *)
(* fetcher's network; the model's and the transport's answers are drawn at *)
(* the step that asks for them.  events logs, in order, every article      *)
(* request ("get"), model call ("model"), length gate ("gate") and         *)
(* transport send ("post"), with the rank of the story it belongs to (0    *)
(* for the date header and for the aggregate sections).                    *)
(***************************************************************************)
MIN_SUMMARY_LENGTH == 50

\* hn_api.get_top_stories(limit=5)
TopStoriesLimit == 5

\* max_items = min(5, len(stories))
MaxItems == 5

max_items(stories) == Min(MaxItems, Len(stories))

\* sys.exit(code), and the return of main
Exit(code) == [kind |-> "exit", code |-> code]

Event(kind, story, what, ok) ==
    [kind |-> kind, story |-> story, what |-> what, ok |-> ok]

\* f"📅 {today.strftime('%Y年%-m月%-d日')} の Hacker News トップ記事"
date_header(today) ==
    <<"D", " ", today.year, "Y", today.month, "M", today.day, "D">>
    \o <<" ">> \o Lit("no Hacker News top stories", 19)

SeparatorText == Rep("-", 9)
EndSeparatorText == Rep("=", 10)

\* The text main puts in place of an overall summary that is too short.
OverallTooShortText == Lit("overall summary too short", 50)

AcceptsUnstripped(m) == m # <<>> /\ ~(Len(m) < MIN_SUMMARY_LENGTH)

\* if not message: continue
\* if len(message.strip()) < MIN_SUMMARY_LENGTH: continue
Accepts(m) == m # <<>> /\ ~(Len(Strip(m)) < MIN_SUMMARY_LENGTH)

NeverEmpty(messages) == FALSE

\* if not story_messages: sys.exit(1)
NoStoryMessages(messages) == messages = <<>>

\* overall_summary after the validation of main: the fallback text when it
\* is empty or shorter than MIN_SUMMARY_LENGTH once stripped.
ValidatedOverall(overall_summary) ==
    IF Strip(overall_summary) = <<>>
       \/ Len(Strip(overall_summary)) < MIN_SUMMARY_LENGTH
    THEN OverallTooShortText ELSE overall_summary

\* The pc and the index after the body of the loop for the story at index:
\* the next story, or the step after the loop.
AfterStory(stories, i) ==
    IF i < max_items(stories)
    THEN [pc |-> "generate_story_summary", index |-> i + 1]
    ELSE [pc |-> "check_story_messages", index |-> i]

ModelBeforeFetch(story, i, fetched) ==
    <<Event("model", i, StoryPrompt(story, i, fetched), TRUE)>>
    \o [j \in 1..Len(fetched.gets) |-> Event("get", i, fetched.gets[j], TRUE)]

\* What generate_story_summary(story, i) asks of the outside, in order: the
\* article, then the model.
StoryEvents(story, i, fetched) ==
    [j \in 1..Len(fetched.gets) |-> Event("get", i, fetched.gets[j], TRUE)]
    \o <<Event("model", i, StoryPrompt(story, i, fetched), TRUE)>>

\* webhook.post_message(content) and the test of its result: the sends are
\* logged; when it returned False the run ends with sys.exit(1), otherwise
\* it goes on at next with index i.
Post(label, story, content, next, i) ==
    \E responses \in [1..Len(Chunks(content)) -> TransportResponses] :
        LET posted == post_message(content, responses) IN
        /\ events' = events \o
              [j \in 1..Len(posted.sends) |->
                  Event("post", story,
                        [label |-> label, chunk |-> posted.sends[j].chunk,
                         of |-> posted.sends[j].of,
                         content |-> posted.sends[j].content],
                        posted.sends[j].ok)]
        /\ IF posted.value
           THEN pc' = next /\ story_index' = i /\ exit_status' = exit_status
           ELSE pc' = "exited" /\ story_index' = story_index /\ exit_status' = Exit(1)

\* A call of one of the three aggregate operations on story_messages: the
\* model is asked, and the text is kept in message.
Aggregate(operation, model, text, next) ==
    /\ events' = Append(events,
                        Event("model", 0,
                              AggregatePrompt(operation, accepted_messages), TRUE))
    /\ model_calls' = Append(model_calls,
                             AggregatePrompt(operation, accepted_messages))
    /\ env' = [model |-> model]
    /\ pending_message' = text
    /\ pc' = next
    /\ UNCHANGED <<op, args, ret, http_gets, prev, story_index, accepted_messages,
                   exit_status>>

(***************************************************************************)
(* The runs of main: up to TopStoriesLimit stories, the story at an odd    *)
(* rank with a url and a long title, the one at an even rank without a url *)
(* and with a short title; the network up or down; for each story the      *)
(* model raises or answers a text that, with its prefix, is just at the    *)
(* gate, just below it once stripped, or (for the first story) longer than *)
(* one Discord message; each send accepted or refused.                     *)
(***************************************************************************)
MainStory(k) ==
    IF k % 2 = 1
    THEN [title |-> Rep("J", 30),
          url |-> Str(UrlOf("example.com", <<".html">>, <<>>)),
          id |-> k, score |-> 7, top_comments |-> <<>>]
    ELSE [title |-> <<"A", "a">>, url |-> None,
          id |-> k, score |-> 8, top_comments |-> <<>>]

MainStories == {[k \in 1..n |-> MainStory(k)] : n \in 0..TopStoriesLimit}

MainDates == {[year |-> "2026", month |-> "1", day |-> "2"]}

MainFetchers ==
    {[fetch_enabled |-> TRUE, net |-> n, page |-> GoodPage,
      max_content_chars |-> DefaultMaxContentChars] :
        n \in {[kind |-> "ok"], [kind |-> "Timeout"]}}

\* With the 7 characters of the article prefix: 50 characters, 49 once
\* stripped, and more than DiscordLimit on three lines.
AtGateText == Rep("J", MIN_SUMMARY_LENGTH - 7)
BelowGateText == Rep("J", MIN_SUMMARY_LENGTH - 8) \o <<" ", " ", "\n">>
TwoChunkText == Rep("J", DiscordLimit - 10) \o <<"\n">> \o Rep("J", 30)

MainStoryOutcomes(k) ==
    {[kind |-> "raise", msg |-> Lit("timed out", 9)],
     Message(Str(AtGateText), Absent),
     Message(Str(BelowGateText), Absent)}
    \cup (IF k = 1 THEN {Message(Str(TwoChunkText), Absent)} ELSE {})

\* The model raises or answers; the overall summary may also come back empty.
MainAggregateOutcomes(operation) ==
    {[kind |-> "raise", msg |-> Lit("timed out", 9)],
     Message(Str(Rep("J", MIN_SUMMARY_LENGTH)), Absent)}
    \cup (IF operation = "generate_overall_summary"
          THEN {Message(Str(<<>>), Absent)} ELSE {})

InitMain ==
    /\ pc = "get_top_stories"
    /\ op = "main"
    /\ args \in [stories : MainStories, today : MainDates, fx : MainFetchers]
    /\ env = None
    /\ ret = None
    /\ Idle

\* stories = hn_api.get_top_stories(limit=5); if not stories: sys.exit(1)
GetTopStories ==
    /\ pc = "get_top_stories"
    /\ op = "main"
    /\ IF args.stories = <<>>
       THEN pc' = "exited" /\ exit_status' = Exit(1)
       ELSE pc' = "post_date_header" /\ exit_status' = exit_status
    /\ UNCHANGED <<op, args, env, ret, http_gets, model_calls, prev, story_index,
                   pending_message, accepted_messages, events>>

\* Step 2: Send date header
PostDateHeader ==
    /\ pc = "post_date_header"
    /\ Post("date header", 0, date_header(args.today),
            "generate_story_summary", 1)
    /\ UNCHANGED <<op, args, env, ret, http_gets, model_calls, prev, pending_message,
                   accepted_messages>>

\* Step 3: message = generator.generate_story_summary(story, index)
SummarizeStory ==
    /\ pc = "generate_story_summary"
    /\ op = "main"
    /\ \E model \in MainStoryOutcomes(story_index) :
          LET story == args.stories[story_index]
              fetched == StoryFetch(story, args.fx)
              summary == generate_story_summary(story, story_index, args.fx, model)
          IN  /\ env' = [model |-> model]
              /\ events' = events \o StoryEvents(story, story_index, fetched)
              /\ http_gets' = http_gets \o fetched.gets
              /\ model_calls' =
                    Append(model_calls, StoryPrompt(story, story_index, fetched))
              /\ IF summary.kind = "raise"
                 THEN /\ pc' = "exited" /\ exit_status' = Exit(1)
                      /\ pending_message' = pending_message
                 ELSE /\ pc' = "gate" /\ exit_status' = exit_status
                      /\ pending_message' = Str(summary.value)
    /\ UNCHANGED <<op, args, ret, prev, story_index, accepted_messages>>

\* The two tests on message, and story_messages.append(message)
GateStory ==
    /\ pc = "gate"
    /\ events' = Append(events,
                        Event("gate", story_index, pending_message.s, Accepts(pending_message.s)))
    /\ IF Accepts(pending_message.s)
       THEN /\ accepted_messages' = Append(accepted_messages, pending_message.s)
            /\ pc' = "post_story"
            /\ story_index' = story_index
       ELSE /\ accepted_messages' = accepted_messages
            /\ pc' = AfterStory(args.stories, story_index).pc
            /\ story_index' = AfterStory(args.stories, story_index).index
    /\ UNCHANGED <<op, args, env, ret, http_gets, model_calls, prev, pending_message,
                   exit_status>>

\* webhook.post_message(message)
PostStory ==
    /\ pc = "post_story"
    /\ Post("story", story_index, pending_message.s,
            IF story_index < max_items(args.stories)
            THEN "post_article_separator" ELSE "check_story_messages",
            story_index)
    /\ UNCHANGED <<op, args, env, ret, http_gets, model_calls, prev, pending_message,
                   accepted_messages>>

\* if index < max_items: webhook.post_message("─────────")
PostArticleSeparator ==
    /\ pc = "post_article_separator"
    /\ Post("article separator", story_index, SeparatorText,
            AfterStory(args.stories, story_index).pc,
            AfterStory(args.stories, story_index).index)
    /\ UNCHANGED <<op, args, env, ret, http_gets, model_calls, prev, pending_message,
                   accepted_messages>>

\* Step 4: if not story_messages: sys.exit(1)
CheckStoryMessages ==
    /\ pc = "check_story_messages"
    /\ IF NoStoryMessages(accepted_messages)
       THEN pc' = "exited" /\ exit_status' = Exit(1)
       ELSE pc' = "generate_overall_summary" /\ exit_status' = exit_status
    /\ UNCHANGED <<op, args, env, ret, http_gets, model_calls, prev, story_index,
                   pending_message, accepted_messages, events>>

\* overall_summary = generator.generate_overall_summary(story_messages), and
\* its validation
OverallSummary ==
    /\ pc = "generate_overall_summary"
    /\ \E model \in MainAggregateOutcomes("generate_overall_summary") :
          Aggregate("generate_overall_summary", model,
                    Str(ValidatedOverall(
                          generate_overall_summary(accepted_messages, model).value)),
                    "post_overall_summary")

PostOverallSummary ==
    /\ pc = "post_overall_summary"
    /\ Post("overall summary", 0, pending_message.s, "extract_key_themes", story_index)
    /\ UNCHANGED <<op, args, env, ret, http_gets, model_calls, prev, pending_message,
                   accepted_messages>>

\* Step 5: key_themes = generator.extract_key_themes(story_messages)
KeyThemes ==
    /\ pc = "extract_key_themes"
    /\ \E model \in MainAggregateOutcomes("extract_key_themes") :
          Aggregate("extract_key_themes", model,
                    Str(extract_key_themes(accepted_messages, model).value),
                    "post_themes_separator")

PostThemesSeparator ==
    /\ pc = "post_themes_separator"
    /\ Post("themes separator", 0, SeparatorText, "post_key_themes", story_index)
    /\ UNCHANGED <<op, args, env, ret, http_gets, model_calls, prev, pending_message,
                   accepted_messages>>

PostKeyThemes ==
    /\ pc = "post_key_themes"
    /\ Post("key themes", 0, pending_message.s, "generate_engineering_insights", story_index)
    /\ UNCHANGED <<op, args, env, ret, http_gets, model_calls, prev, pending_message,
                   accepted_messages>>

\* Step 6: engineering_insights =
\*             generator.generate_engineering_insights(story_messages)
EngineeringInsights ==
    /\ pc = "generate_engineering_insights"
    /\ \E model \in MainAggregateOutcomes("generate_engineering_insights") :
          Aggregate("generate_engineering_insights", model,
                    Str(generate_engineering_insights(accepted_messages,
                                                      model).value),
                    "post_insights_separator")

PostInsightsSeparator ==
    /\ pc = "post_insights_separator"
    /\ Post("insights separator", 0, SeparatorText,
            "post_engineering_insights", story_index)
    /\ UNCHANGED <<op, args, env, ret, http_gets, model_calls, prev, pending_message,
                   accepted_messages>>

PostEngineeringInsights ==
    /\ pc = "post_engineering_insights"
    /\ Post("engineering insights", 0, pending_message.s, "post_end_separator", story_index)
    /\ UNCHANGED <<op, args, env, ret, http_gets, model_calls, prev, pending_message,
                   accepted_messages>>

\* Step 7: Post end separator
PostEndSeparator ==
    /\ pc = "post_end_separator"
    /\ Post("end separator", 0, EndSeparatorText, "return", story_index)
    /\ UNCHANGED <<op, args, env, ret, http_gets, model_calls, prev, pending_message,
                   accepted_messages>>

\* main returns: the process ends with status 0.
ReturnFromMain ==
    /\ pc = "return"
    /\ pc' = "exited"
    /\ exit_status' = Exit(0)
    /\ UNCHANGED <<op, args, env, ret, http_gets, model_calls, prev, story_index,
                   pending_message, accepted_messages, events>>

NextMain ==
    \/ GetTopStories
    \/ PostDateHeader
    \/ SummarizeStory
    \/ GateStory
    \/ PostStory
    \/ PostArticleSeparator
    \/ CheckStoryMessages
    \/ OverallSummary
    \/ PostOverallSummary
    \/ KeyThemes
    \/ PostThemesSeparator
    \/ PostKeyThemes
    \/ EngineeringInsights
    \/ PostInsightsSeparator
    \/ PostEngineeringInsights
    \/ PostEndSeparator
    \/ ReturnFromMain

SpecMain == InitMain /\ [][NextMain]_vars

\* The events of one kind, in order.
EventsOf(kind) == SelectSeq(events, LAMBDA e : e.kind = kind)

\* The per-story summaries generate_story_summary returned, in rank order.
Summaries == [i \in 1..Len(EventsOf("gate")) |-> EventsOf("gate")[i].what]

\* The stripped length of a summary is at least the minimum length.
PassesGate(m) == Len(Strip(m)) >= MIN_SUMMARY_LENGTH

\* The calls of the model made by the overall, theme and insight stages.
AggregateCalls ==
    SelectSeq(events, LAMBDA e : e.kind = "model" /\ e.story = 0)

\* C11: the sequence of summaries handed to the overall, theme and insight
\* stages is exactly the sub-sequence, in story rank order, of the per-story
\* summaries whose stripped length is at least MIN_SUMMARY_LENGTH: every
\* story has been through the gate by then, a summary below the gate is in
\* no aggregate prompt, and the three stages get the same sequence.
C11_AggregatesGetGatedSummaries ==
    /\ accepted_messages = SelectSeq(Summaries, PassesGate)
    /\ \A j \in 1..Len(EventsOf("gate")) : EventsOf("gate")[j].story = j
    /\ \A i \in 1..Len(AggregateCalls) :
          /\ Len(Summaries) = max_items(args.stories)
          /\ AggregateCalls[i].what =
                AggregatePrompt(AggregateCalls[i].what.operation,
                                SelectSeq(Summaries, PassesGate))

\* Five stories, one of them with a summary that is not empty and is below
\* the gate only once stripped: the three stages were each given the other
\* four.
C11_Witness ==
    /\ pc = "exited" /\ exit_status = Exit(0)
    /\ Len(args.stories) = 5
    /\ Len(Summaries) = 5
    /\ Len(SelectSeq(Summaries, PassesGate)) = 4
    /\ \E j \in 1..5 : /\ ~PassesGate(Summaries[j])
                       /\ Len(Summaries[j]) >= MIN_SUMMARY_LENGTH
    /\ Len(AggregateCalls) = 3
    /\ \A i \in 1..3 : AggregateCalls[i].what.count = 4
    /\ {AggregateCalls[i].what.operation : i \in 1..3} = AggregateOperations

\* The places in the log of the sends the transport refused.
FailedSends ==
    {i \in 1..Len(events) : events[i].kind = "post" /\ ~events[i].ok}

\* C12: once a send to the transport has failed, whatever the message (date
\* header, story message, separator, overall summary, themes, insights, end
\* separator), the run has ended with status 1 and the failed send is the
\* last thing it did: no send, article request or model call follows it.
C12_SendFailureAborts ==
    \A i \in FailedSends :
        /\ i = Len(events)
        /\ pc = "exited"
        /\ exit_status = Exit(1)

\* The separator after the first of five stories was refused: the run ended
\* there, with four stories neither fetched nor summarized.
C12_Witness ==
    /\ FailedSends = {Len(events)}
    /\ events[Len(events)].what.label = "article separator"
    /\ Len(args.stories) = 5
    /\ story_index = 1
    /\ http_gets # <<>> /\ Len(model_calls) = 1
    /\ pc = "exited" /\ exit_status = Exit(1)

\* Two sends carry chunks of the same message.
SameMessage(e, f) ==
    /\ e.kind = "post" /\ f.kind = "post"
    /\ e.story = f.story
    /\ e.what.label = f.what.label

\* C13: a message is delivered with all its chunks or with none: when the
\* transport refuses a chunk of a message, no chunk of that message has
\* been delivered.
C13_AllChunksOrNone ==
    \A i \in FailedSends :
        \A j \in 1..Len(events) :
            SameMessage(events[i], events[j]) => ~events[j].ok

\* The messages of the aggregate part of the digest.
AggregateLabels ==
    {"overall summary", "themes separator", "key themes",
     "insights separator", "engineering insights", "end separator"}

\* No summary generated so far passes the minimum-length gate.
NoUsableSummary == SelectSeq(Summaries, PassesGate) = <<>>

\* Nothing of the aggregate part has happened: no aggregate call of the
\* model, and no send of an aggregate section or of the end separator.
NoAggregateStep ==
    /\ AggregateCalls = <<>>
    /\ \A i \in 1..Len(events) :
          events[i].kind = "post" => events[i].what.label \notin AggregateLabels

\* The steps of main from the overall summary on.
AggregateSteps ==
    {"generate_overall_summary", "post_overall_summary", "extract_key_themes",
     "post_themes_separator", "post_key_themes",
     "generate_engineering_insights", "post_insights_separator",
     "post_engineering_insights", "post_end_separator", "return"}

\* C14: while no story has yielded a summary that passes the gate (the
\* story source may have yielded no story at all), the run never enters the
\* aggregate part: no aggregate call of the model is made and no aggregate
\* section or end separator is sent; and when the run has ended without a
\* passing summary, its status is 1.
C14_NoUsableStoryAborts ==
    NoUsableSummary =>
        /\ NoAggregateStep
        /\ pc \notin AggregateSteps
        /\ pc = "exited" => exit_status = Exit(1)

\* Five stories were summarized and every summary fell below the gate; no
\* send failed, and the run ended with status 1 before the overall summary.
C14_Witness ==
    /\ pc = "exited" /\ exit_status = Exit(1)
    /\ Len(Summaries) = 5
    /\ NoUsableSummary
    /\ FailedSends = {}
    /\ Len(model_calls) = 5

\* The place of an event in the processing of its story: the article is
\* requested, the model is called, the summary is gated, its chunks and the
\* separator that follows them are sent.
Phase(e) ==
    CASE e.kind = "get" -> 1
      [] e.kind = "model" -> 2
      [] e.kind = "gate" -> 3
      [] e.kind = "post" -> 4

\* Two events are the same request, the same call, the same gate or the
\* same send of a chunk.
SameAttempt(e, f) ==
    /\ e.kind = f.kind
    /\ e.story = f.story
    /\ e.kind = "model" => e.what.operation = f.what.operation
    /\ e.kind = "post" => /\ e.what.label = f.what.label
                          /\ e.what.chunk = f.what.chunk

\* C15: stories are processed one after another in rank order; for each
\* story the article request comes first (a story with a url is requested
\* before the model is called), then the call of the model, then the length
\* gate, then the sends of its chunks; no event of a story comes after an
\* event of a later story; no aggregate call of the model is made before
\* every story has been through the loop, and no event of a story follows
\* it; and no request, model call or send of a chunk is made twice.
C15_SerialNoRetry ==
    /\ \A i, j \in 1..Len(events) :
          i < j =>
             /\ (events[i].story > 0 /\ events[j].story > 0)
                   => events[i].story <= events[j].story
             /\ (events[i].story > 0 /\ events[i].story = events[j].story)
                   => Phase(events[i]) <= Phase(events[j])
             /\ (events[i].kind = "model" /\ events[i].story = 0)
                   => events[j].story = 0
             /\ ~SameAttempt(events[i], events[j])
    /\ \A j \in 1..Len(events) :
          /\ (events[j].kind = "model" /\ events[j].story > 0
              /\ Truthy(args.stories[events[j].story].url))
                => \E i \in 1..(j - 1) :
                      events[i].kind = "get" /\ events[i].story = events[j].story
          /\ events[j].kind \in {"gate", "post"} /\ events[j].story > 0
                => \E i \in 1..(j - 1) :
                      events[i].kind = "model" /\ events[i].story = events[j].story
          /\ (events[j].kind = "post" /\ events[j].story > 0)
                => \E i \in 1..(j - 1) :
                      /\ events[i].kind = "gate" /\ events[i].ok
                      /\ events[i].story = events[j].story
    /\ AggregateCalls # <<>> => Len(EventsOf("gate")) = max_items(args.stories)

\* A whole run of five stories, all accepted and delivered, the first one
\* in two chunks, with the three aggregate sections and the end separator.
C15_Witness ==
    /\ pc = "exited" /\ exit_status = Exit(0)
    /\ Len(args.stories) = 5
    /\ Len(accepted_messages) = 5
    /\ Len(EventsOf("get")) = 3
    /\ Len(EventsOf("model")) = 8
    /\ \E i \in 1..Len(events) :
          /\ events[i].kind = "post" /\ events[i].story = 1
          /\ events[i].what.chunk = 2
    /\ events[Len(events)].what.label = "end separator"

\* The model answered, its primary content is empty or blank and its
\* reasoning field is not empty.
RecoveryApplies ==
    /\ env.model.kind = "response"
    /\ ~StripRaises(env.model.message.content)
    /\ Blank(env.model.message.content)
    /\ HasReasoning(env.model.message)

\* C16: an aggregate operation whose model answered with an empty or blank
\* primary content and a reasoning field that is not empty uses as its
\* answer extract_japanese_response(reasoning field), the text
\* generate_story_summary recovers from the same response, never the raw
\* reasoning field.
C16_SameRecovery ==
    (pc = "done" /\ op \in AggregateOperations /\ RecoveryApplies) =>
        ret.value =
            HeaderOf(op)
            \o extract_japanese_response(env.model.message.reasoning_content.s)

(***************************************************************************)
(* The content section of the per-story prompt: stories without a url      *)
(* (None or the empty string), with a page url and with a PDF link; the    *)
(* fetcher disabled, or enabled with every outcome of the request and a    *)
(* page from which text is or is not extracted.                            *)
(***************************************************************************)
SectionUrls ==
    {None, Str(<<>>),
     Str(UrlOf("example.com", <<".html">>, <<>>)),
     Str(UrlOf("example.com", <<".pdf">>, <<>>))}

SectionStories ==
    [title : {<<"A", "a">>}, url : SectionUrls, id : {1}, score : {7},
     top_comments : {<<>>}]

SectionFetchers ==
    {[fetch_enabled |-> b, net |-> e.net, page |-> e.page,
      max_content_chars |-> DefaultMaxContentChars] :
        b \in BOOLEAN,
        e \in {[net |-> n, page |-> NoPage] : n \in NetOutcomes}
              \cup {[net |-> [kind |-> "ok"], page |-> GoodPage]}}

InitSection ==
    /\ pc = "ready"
    /\ op = "generate_story_summary"
    /\ args \in [story : SectionStories, index : 1..MaxIndex]
    /\ env \in [fx : SectionFetchers, model : StoryModelOutcomes]
    /\ ret = None
    /\ Idle

NextSection == GenerateStorySummary

SpecSection == InitSection /\ [][NextSection]_vars

\* What the acquisition of the story's article gives: the result of
\* fetch_article_content for its url.
Acquisition ==
    fetch_article_content(args.story.url.s, env.fx.net, env.fx.page,
                          env.fx.max_content_chars).value

\* C17: generate_story_summary returns whatever the acquisition did, and the
\* content section of its prompt carries the extracted text when the
\* acquisition succeeded, the "content unavailable" placeholder with the
\* reason of the failure for every story that has a url and whose
\* acquisition produced no content, and the "no external article"
\* placeholder only for a story without a url.
C17_ContentSectionByOutcome ==
    Returned("generate_story_summary") =>
        /\ ret.kind = "return"
        /\ Len(model_calls) = 1
        /\ LET section == model_calls[1].content_section IN
           IF ~Truthy(args.story.url)
           THEN section.kind = "no external article"
           ELSE IF Truthy(Acquisition.content)
           THEN section = [kind |-> "article", text |-> Acquisition.content.s]
           ELSE section = [kind |-> "unavailable", text |-> Acquisition.error.s]

====
